---- MODULE Spec2Model ----
(***************************************************************************)
(* The Telegram transport (src/src/api/telegramAPI.js), the App-level poll *)
(* trigger (src/unnamed/part_002) and the remote getUpdates endpoint they  *)
(* talk to, as a state machine.  One JavaScript macrotask (a timer         *)
(* callback, or the continuation of an awaited network call) is one        *)
(* action.                                                                 *)
(***************************************************************************)
EXTENDS Integers, Sequences, FiniteSets, TLC

VARIABLES
  token,                 \* this.token
  chatId,                \* this.chatId
  lastUpdateId,          \* this.lastUpdateId
  connected,             \* this.connected
  reconnectTimer,        \* this.reconnectTimer
  reconnectAttempts,     \* this.reconnectAttempts
  updatePollingInterval, \* this.updatePollingInterval (TRUE: an interval is armed)
  isPolling,             \* this.isPolling
  timeouts,              \* timer queue: reconnect timeouts scheduled, not yet fired or cleared
  intervals,             \* timer queue: polling intervals set by startUpdatePolling, not yet cleared
  commandHandlers,       \* this.commandHandlers
  connectionListeners,   \* this.connectionListeners
  notifications,         \* history: the calls the connection listeners received, in order
  outbox,                \* history: the calls of sendMessage / sendFile and the requests they posted
  registrations,         \* history: the calls of registerCommandHandler made after start-up
  cycles,                \* poll cycles in flight (interval callbacks / checkTelegramUpdates calls)
  getMe,                 \* liveness checks in flight, by the caller that awaits them, and what the last one returned
  isConnected,           \* App: React state isConnected
  processing,            \* App: React state processing
  updateInterval,        \* App: the interval armed by startMonitoring, with the values its callback closed over
  serverUpdates,         \* remote service: the updates created so far
  confirmed,             \* remote service: highest update id confirmed by an offset
  nPolls,                \* history: number of getUpdates requests issued
  nInit,                 \* history: number of calls of initialize
  nFails,                \* history: number of network requests that failed
  returned,              \* history: update ids some getUpdates call has returned
  invocations,           \* history: per update id, how many handler invocations it caused
  acks                   \* history: per update id, how many answerCallbackQuery requests were issued

vars == <<token, chatId, lastUpdateId, connected, reconnectTimer, reconnectAttempts,
          updatePollingInterval, isPolling, timeouts, intervals, commandHandlers,
          connectionListeners, notifications, outbox, registrations, cycles, getMe,
          isConnected, processing, updateInterval, serverUpdates, confirmed,
          nPolls, nInit, nFails, returned, invocations, acks>>

\* what only the callers of the transport change
clientVars == <<commandHandlers, connectionListeners, outbox, registrations>>
transportVars == <<token, chatId, lastUpdateId, connected, reconnectTimer,
                   reconnectAttempts, updatePollingInterval, isPolling, timeouts,
                   intervals, notifications, clientVars>>
connVars == <<connected, reconnectTimer, reconnectAttempts, updatePollingInterval,
              isPolling, timeouts, intervals, isConnected, notifications>>
appVars == <<isConnected, processing, updateInterval>>
serverVars == <<serverUpdates, confirmed>>

-----------------------------------------------------------------------------
(* Bounds of the model *)

FirstUpdateId == 4   \* id of the first update the remote service creates

\* Spec: the cursor under overlapping poll cycles
MaxUpdates == 2      \* updates the remote service creates
MaxPolls == 3        \* getUpdates requests issued over a run
MaxInFlight == 2     \* poll cycles in flight at once
MaxInit == 2         \* calls of initialize over a run
MaxFails == 1        \* network requests that fail over a run

\* SpecDispatch: batches of mixed updates
DispatchUpdates == 3
DispatchPolls == 2
DispatchInFlight == 2
DispatchInit == 1
DispatchFails == 1

\* SpecRouting: one update at a time, of every shape, while handlers are registered
RoutingUpdates == 1
RoutingPolls == 1
RoutingRegistrations == 3   \* calls of registerCommandHandler over a run
RoutingInit == 1            \* calls of initialize over a run

\* SpecListeners: connection listeners
MaxListeners == 3       \* length of the listener list, App's listener included
MaxNotifications == 5   \* calls the added listeners receive over a run
ListenerInit == 2
ListenerFails == 1

\* SpecSend: sendMessage and sendFile
MaxSends == 2           \* calls of sendMessage / sendFile over a run
SendInit == 2
SendFails == 2

\* SpecFailures: requests and handlers that fail while connected
FailureUpdates == 2
FailurePolls == 2
FailureInFlight == 1
FailureInit == 2
FailureFails == 3
FailureSends == 1

\* SpecRetry: getUpdates requests that are refused and sent again
RetryUpdates == 1
RetryPolls == 2
RetryInFlight == 2
RetryInit == 1

\* SpecReconnect: the reconnection state machine, no update ever created
ReconnectPolls == 2
ReconnectInFlight == 2
ReconnectInit == 2

(* Program constants *)

maxReconnectAttempts == 10
MaxReconnectDelay == 30000
BackoffUnit == 1000
retry == 3               \* config.retry, set by the request interceptor
RetryUnit == 1000        \* milliseconds, the factor of the interceptor's delay

-----------------------------------------------------------------------------
(* Values *)

NoToken == ""                \* a falsy token (null or the empty string)
NoChat == <<>>               \* a falsy chat id
NoTimer == [set |-> FALSE, pending |-> FALSE, delay |-> 0, attempt |-> 0]
NoInterval == [armed |-> FALSE, processing |-> FALSE, isConnected |-> FALSE]
NoKey == <<>>
\* the arguments a handler gets after the update itself
NoParam == [kind |-> "none", str |-> <<>>, arr |-> <<>>]
StringParam(s) == [kind |-> "string", str |-> s, arr |-> <<>>]
ArrayParam(a) == [kind |-> "array", str |-> <<>>, arr |-> a]

BotToken == "token"
\* error.response?.status of a request that got no response
NoStatus == 0
\* what a refused request comes back with: nothing (network error, timeout),
\* a server error, Too Many Requests, or another client error
Statuses == {NoStatus, 500, 502, 429, 400, 409}
\* App's handleConnectionChange, and the listeners other callers add
AppListener == "handleConnectionChange"
Listeners == {"first", "second"}
NotAFunction == "notAFunction"
\* no call of sendMessage or sendFile yet
NoCalls == [calls |-> <<>>, posted |-> {}]
\* Strings are sequences of characters; a callback data string or a message
\* text is a sequence of tokens, "_", " " and "/" being tokens of their own.
AuthorizedChat == 7          \* chat.id of the updates of the configured chat
OtherChat == AuthorizedChat + 1

Min(a, b) == IF a < b THEN a ELSE b
Max(a, b) == IF a < b THEN b ELSE a

Pow2(n) == 2 ^ n

DigitChars == <<"0", "1", "2", "3", "4", "5", "6", "7", "8", "9">>

RECURSIVE NatToString(_)
NatToString(n) ==
  IF n < 10 THEN <<DigitChars[n + 1]>>
  ELSE NatToString(n \div 10) \o <<DigitChars[(n % 10) + 1]>>

\* Number.prototype.toString of a chat id
IdToString(n) == IF n < 0 THEN <<"-">> \o NatToString(0 - n) ELSE NatToString(n)

\* the chat id the settings hold, a string
ConfiguredChat == IdToString(AuthorizedChat)

\* What an update can carry: callback queries and text messages, from the
\* configured chat and from another chat.
Payloads ==
  { [kind |-> "callback_query", chat |-> AuthorizedChat, data |-> <<"storage">>],
    [kind |-> "callback_query", chat |-> AuthorizedChat, data |-> <<"back">>],
    [kind |-> "callback_query", chat |-> OtherChat, data |-> <<"storage">>],
    [kind |-> "message", chat |-> OtherChat, data |-> <<"/", "storage">>] }

\* Callback data and texts that exercise the routing of processUpdate, all
\* from the configured chat
Callback(data) == [kind |-> "callback_query", chat |-> AuthorizedChat, data |-> data]
Message(text) == [kind |-> "message", chat |-> AuthorizedChat, data |-> text]
RoutingPayloads ==
  { Callback(<<"file", "_", "42">>), Callback(<<"a", "_", "b", "_", "c">>),
    Callback(<<"call", "_", "logs">>), Callback(<<"storage">>),
    Callback(<<"unknown">>), Callback(<<"x", "_", "y">>), Callback(<<"constructor">>),
    Message(<<"/", "sms", "_", "logs">>), Message(<<"/", "SMS", "_", "LOGS", " ", "x">>),
    Message(<<"/", "file", " ", " ", "42">>), Message(<<"/", "nope">>),
    Message(<<"/", "constructor">>), Message(<<"hello">>) }

\* A button with a handler and a button without, pressed in the configured chat
FailurePayloads == {Callback(<<"storage">>), Callback(<<"unknown">>)}

\* The storage button, pressed in the configured chat
StoragePayloads == {p \in Payloads : p.chat = AuthorizedChat /\ p.data = <<"storage">>}

\* A function every object literal inherits: ({})['constructor'] is Object
ObjectPrototype == {<<"constructor">>}

\* What registerCommandHandler is called with after start-up
RegisteredNames == {<<"a">>, <<"call">>, <<"storage">>}
Functions == {<<"f">>, <<"g">>}
NotAHandler == <<"null">>

\* The registrations App makes at start-up
AppHandlers ==
  { <<"call", "_", "logs">>, <<"sms", "_", "logs">>, <<"contacts">>, <<"storage">>,
    <<"device", "_", "info">>, <<"screenshot">>, <<"file">>, <<"back">> }

-----------------------------------------------------------------------------
(* String helpers of processUpdate *)

Includes(s, t) == \E i \in 1..Len(s) : s[i] = t

\* index of the first occurrence of t in s, Len(s) + 1 when there is none
RECURSIVE IndexOf(_, _, _)
IndexOf(s, t, i) ==
  IF i > Len(s) THEN Len(s) + 1
  ELSE IF s[i] = t THEN i ELSE IndexOf(s, t, i + 1)

\* s.split(t): the pieces of s between the occurrences of t
RECURSIVE Split(_, _)
Split(s, t) ==
  LET k == IndexOf(s, t, 1) IN
    IF k > Len(s) THEN <<s>>
    ELSE <<SubSeq(s, 1, k - 1)>> \o Split(SubSeq(s, k + 1, Len(s)), t)

\* parts.join(t)
RECURSIVE Join(_, _)
Join(parts, t) ==
  IF Len(parts) = 0 THEN <<>>
  ELSE IF Len(parts) = 1 THEN parts[1]
  ELSE parts[1] \o <<t>> \o Join(Tail(parts), t)

LowerToken(t) ==
  CASE t = "STORAGE" -> "storage"
    [] t = "SMS" -> "sms"
    [] t = "LOGS" -> "logs"
    [] OTHER -> t

\* String.prototype.toLowerCase
ToLowerCase(s) == [i \in 1..Len(s) |-> LowerToken(s[i])]

\* this.commandHandlers has an own property key: a handler is registered
HasHandler(key) == key \in DOMAIN commandHandlers

\* this.commandHandlers[key] is a function the object literal inherits from
\* Object.prototype
Inherited(key) == ~HasHandler(key) /\ key \in ObjectPrototype

\* faulty variant: the chat is checked for text messages only
UnauthorizedMessagesOnly(u) == u.kind = "message" /\ IdToString(u.chat) # chatId

\* the check at the head of processUpdate: the update is from another chat
Unauthorized(u) == IdToString(u.chat) # chatId

\* `this.api` is an axios instance (createTelegramAPI returned one)
ApiReady == token # NoToken

-----------------------------------------------------------------------------
(* Initial state: the singleton after construction, App mounted with its   *)
(* handlers registered, the remote service with no update yet.             *)

Init ==
  /\ token = NoToken
  /\ chatId = NoChat
  /\ lastUpdateId = 0
  /\ connected = FALSE
  /\ reconnectTimer = NoTimer
  /\ reconnectAttempts = 0
  /\ updatePollingInterval = FALSE
  /\ isPolling = FALSE
  /\ timeouts = 0
  /\ intervals = 0
  /\ commandHandlers = [k \in AppHandlers |-> k]
  /\ connectionListeners = <<AppListener>>
  /\ notifications = <<>>
  /\ outbox = NoCalls
  /\ registrations = <<>>
  /\ cycles = {}
  /\ getMe = [init |-> 0, timer |-> 0, result |-> FALSE]
  /\ isConnected = FALSE
  /\ processing = FALSE
  /\ updateInterval = NoInterval
  /\ serverUpdates = <<>>
  /\ confirmed = 0
  /\ nPolls = 0
  /\ nInit = 0
  /\ nFails = 0
  /\ returned = {}
  /\ invocations = <<>>
  /\ acks = <<>>

-----------------------------------------------------------------------------
(* Connection state machine *)

\* the listeners other than App's own, in the order of the list
Observers(listeners) == SelectSeq(listeners, LAMBDA l : l # AppListener)

\* the calls listener(status) for each of the listeners
Calls(listeners, status) ==
  [i \in 1..Len(listeners) |-> [listener |-> listeners[i], status |-> status]]

\* faulty variant: the listeners run on every call
SetConnectedAlwaysNotifies(status) ==
  /\ connected' = status
  /\ isConnected' = IF Includes(connectionListeners, AppListener)
                    THEN status ELSE isConnected
  /\ notifications' = notifications \o Calls(Observers(connectionListeners), status)

\* setConnected(status): listeners run only when the value changes; App's
\* handleConnectionChange sets the React state isConnected
SetConnected(status) ==
  /\ connected' = status
  /\ isConnected' = IF connected # status /\ Includes(connectionListeners, AppListener)
                    THEN status ELSE isConnected
  /\ notifications' = IF connected # status
                      THEN notifications \o Calls(Observers(connectionListeners), status)
                      ELSE notifications

\* faulty variant: no look at isPolling, an interval is set on every call
StartUpdatePollingUnguarded ==
  /\ isPolling' = TRUE
  /\ updatePollingInterval' = TRUE
  /\ intervals' = intervals + 1

\* startUpdatePolling()
StartUpdatePolling ==
  /\ isPolling' = TRUE
  /\ updatePollingInterval' = IF isPolling THEN updatePollingInterval ELSE TRUE
  /\ intervals' = IF isPolling THEN intervals ELSE intervals + 1

\* stopUpdatePolling()
StopUpdatePolling ==
  /\ updatePollingInterval' = FALSE
  /\ intervals' = IF updatePollingInterval THEN intervals - 1 ELSE intervals
  /\ isPolling' = FALSE

\* faulty variant: the exponent is the number of the attempt being scheduled
ReconnectDelayOfNext(attempts) ==
  Min(MaxReconnectDelay, Pow2(attempts + 1) * BackoffUnit)

\* the delay handleDisconnection computes
ReconnectDelay(attempts) == Min(MaxReconnectDelay, Pow2(attempts) * BackoffUnit)

\* faulty variant: one attempt more than maxReconnectAttempts
WillReconnectOnceMore(attempts) == attempts <= maxReconnectAttempts

\* faulty variant: a reconnect is scheduled whatever the number of attempts
WillReconnectAlways(attempts) == TRUE

\* handleDisconnection() schedules a reconnect
WillReconnect(attempts) == attempts < maxReconnectAttempts

\* faulty variant: the timeout scheduled before is left in the queue
KeepTimeout == timeouts

\* clearTimeout(this.reconnectTimer): what is left in the timer queue
ClearTimeout == IF reconnectTimer.pending THEN timeouts - 1 ELSE timeouts

\* handleDisconnection()
HandleDisconnection ==
  /\ SetConnected(FALSE)
  /\ StopUpdatePolling
  /\ reconnectTimer' =
       IF WillReconnect(reconnectAttempts)
       THEN [set |-> TRUE, pending |-> TRUE,
             delay |-> ReconnectDelay(reconnectAttempts),
             attempt |-> reconnectAttempts + 1]
       ELSE [reconnectTimer EXCEPT !.pending = FALSE]
  /\ timeouts' = IF WillReconnect(reconnectAttempts) THEN ClearTimeout + 1 ELSE ClearTimeout
  /\ UNCHANGED reconnectAttempts

\* testConnection() up to its await: the getMe request is in flight
TestConnection(caller) == getMe' = [getMe EXCEPT ![caller] = @ + 1]

\* faulty variant: the chat id is not looked at
HasToken(t, c) == t # NoToken

\* initialize's test `this.api && this.chatId`, createTelegramAPI returning
\* null for a falsy token
HasCredentials(t, c) == t # NoToken /\ c # NoChat

\* initialize(token, chatId), as App calls it at start-up with saved credentials
Initialize(t, c) ==
  /\ token' = t
  /\ chatId' = c
  /\ IF HasCredentials(t, c)
     THEN /\ SetConnected(TRUE)
          /\ StartUpdatePolling
          /\ TestConnection("init")
     ELSE /\ SetConnected(FALSE)
          /\ UNCHANGED <<updatePollingInterval, intervals, isPolling, getMe>>
  /\ nInit' = nInit + 1
  /\ UNCHANGED <<lastUpdateId, reconnectTimer, timeouts, reconnectAttempts, clientVars,
                 cycles, processing, updateInterval, serverVars, nPolls, nFails,
                 returned, invocations, acks>>

\* SettingsForm's handleConnect followed by App's handleConnect: initialize,
\* then setIsConnected(true) and startMonitoring() of the render the button
\* was drawn in, whose isConnected and processing the new interval's
\* callback closes over
HandleConnect ==
  /\ token' = BotToken
  /\ chatId' = ConfiguredChat
  /\ connected' = TRUE
  /\ notifications' = IF connected THEN notifications
                      ELSE notifications \o Calls(Observers(connectionListeners), TRUE)
  /\ StartUpdatePolling
  /\ TestConnection("init")
  /\ nInit' = nInit + 1
  /\ isConnected' = TRUE
  /\ updateInterval' =
       IF isConnected
       THEN [armed |-> TRUE, processing |-> processing, isConnected |-> TRUE]
       ELSE NoInterval
  /\ UNCHANGED <<lastUpdateId, reconnectTimer, timeouts, reconnectAttempts, clientVars,
                 cycles, processing, serverVars, nPolls, nFails, returned, invocations, acks>>

\* getMe answers with the bot's info
GetMeSucceeds(caller) ==
  /\ getMe[caller] > 0
  /\ getMe' = [getMe EXCEPT ![caller] = @ - 1, !.result = TRUE]
  /\ reconnectAttempts' = 0
  /\ IF caller = "timer"
     THEN SetConnected(TRUE) /\ StartUpdatePolling
     ELSE UNCHANGED <<connected, isConnected, notifications, updatePollingInterval, intervals,
                      isPolling>>
  /\ UNCHANGED <<token, chatId, lastUpdateId, reconnectTimer, timeouts, clientVars, cycles,
                 processing, updateInterval, serverVars, nPolls, nInit, nFails,
                 returned, invocations, acks>>

\* faulty variant: any answer to getMe resets the attempts
GetMeNoBotInfoResets(caller) ==
  /\ getMe[caller] > 0
  /\ getMe' = [getMe EXCEPT ![caller] = @ - 1, !.result = FALSE]
  /\ reconnectAttempts' = 0
  /\ UNCHANGED <<token, chatId, lastUpdateId, connected, reconnectTimer, timeouts,
                 updatePollingInterval, intervals, isPolling, notifications, clientVars,
                 cycles, appVars, serverVars, nPolls, nInit, nFails, returned,
                 invocations, acks>>

\* getMe answers without a bot id: testConnection returns false
GetMeNoBotInfo(caller) ==
  /\ getMe[caller] > 0
  /\ getMe' = [getMe EXCEPT ![caller] = @ - 1, !.result = FALSE]
  /\ UNCHANGED <<transportVars, cycles, appVars, serverVars, nPolls, nInit, nFails,
                 returned, invocations, acks>>

\* getMe fails: testConnection's catch
GetMeFails(caller) ==
  /\ getMe[caller] > 0
  /\ getMe' = [getMe EXCEPT ![caller] = @ - 1, !.result = FALSE]
  /\ HandleDisconnection
  /\ nFails' = nFails + 1
  /\ UNCHANGED <<token, chatId, lastUpdateId, clientVars, cycles, processing,
                 updateInterval, serverVars, nPolls, nInit, returned, invocations, acks>>

\* the callback handleDisconnection passed to setTimeout
ReconnectTimerFires ==
  /\ reconnectTimer.pending
  /\ reconnectTimer' = [reconnectTimer EXCEPT !.pending = FALSE]
  /\ timeouts' = timeouts - 1
  /\ reconnectAttempts' = reconnectAttempts + 1
  /\ IF token # NoToken /\ chatId # NoChat
     THEN TestConnection("timer")
     ELSE UNCHANGED getMe
  /\ UNCHANGED <<token, chatId, lastUpdateId, connected, notifications,
                 updatePollingInterval, intervals, isPolling, clientVars, cycles, appVars, serverVars, nPolls,
                 nInit, nFails, returned, invocations, acks>>

-----------------------------------------------------------------------------
(* Remote service *)

\* an operator presses a button or sends a text: the service creates an update
NewUpdate(p) ==
  LET id == FirstUpdateId + Len(serverUpdates) IN
  /\ serverUpdates' = Append(serverUpdates,
       [update_id |-> id, kind |-> p.kind, chat |-> p.chat, data |-> p.data])
  /\ invocations' = invocations @@ (id :> 0)
  /\ acks' = acks @@ (id :> 0)
  /\ UNCHANGED <<transportVars, cycles, getMe, appVars, confirmed, nPolls, nInit,
                 nFails, returned>>

\* what the service answers to getUpdates?offset=o: o confirms every update
\* below it, and the updates not yet confirmed are returned oldest first
Pending(o) ==
  LET lo == Max(o, confirmed + 1) IN
    SelectSeq(serverUpdates, LAMBDA u : u.update_id >= lo)

-----------------------------------------------------------------------------
(* Poll cycles *)

NewCycle(src) ==
  [id |-> nPolls + 1, src |-> src, pc |-> "getUpdates", offset |-> lastUpdateId + 1,
   resp |-> "pending", batch |-> <<>>, idx |-> 0, key |-> NoKey, param |-> NoParam,
   started |-> <<>>, answered |-> 0, threw |-> FALSE,
   retryCount |-> 0, status |-> NoStatus, delay |-> 0]

\* the request getUpdates() sends
IssueGetUpdates(src) ==
  /\ cycles' = cycles \cup {NewCycle(src)}
  /\ nPolls' = nPolls + 1

\* the callback startUpdatePolling passed to setInterval, up to its first await
PollTick ==
  /\ updatePollingInterval
  /\ IF ~connected
     THEN UNCHANGED <<connVars, cycles, nPolls>>
     ELSE IF ~ApiReady
     THEN HandleDisconnection /\ UNCHANGED <<cycles, nPolls>>
     ELSE IssueGetUpdates("interval") /\ UNCHANGED connVars
  /\ UNCHANGED <<token, chatId, lastUpdateId, clientVars, getMe, processing,
                 updateInterval, serverVars, nInit, nFails, returned, invocations, acks>>

\* App's checkTelegramUpdates, called by the interval startMonitoring armed,
\* up to its first await
CheckTelegramUpdates ==
  /\ updateInterval.armed
  /\ IF updateInterval.processing \/ ~updateInterval.isConnected
     THEN UNCHANGED <<connVars, cycles, nPolls, processing>>
     ELSE IF ~connected
     THEN processing' = FALSE /\ UNCHANGED <<connVars, cycles, nPolls>>
     ELSE IF ~ApiReady
     THEN HandleDisconnection /\ processing' = FALSE /\ UNCHANGED <<cycles, nPolls>>
     ELSE IssueGetUpdates("app") /\ processing' = TRUE /\ UNCHANGED connVars
  /\ UNCHANGED <<token, chatId, lastUpdateId, clientVars, getMe, updateInterval,
                 serverVars, nInit, nFails, returned, invocations, acks>>

\* the service answers a getUpdates request
ServerAnswers(c) ==
  /\ c.pc = "getUpdates" /\ c.resp = "pending"
  /\ cycles' = (cycles \ {c}) \cup {[c EXCEPT !.resp = "ok", !.batch = Pending(c.offset)]}
  /\ confirmed' = Max(confirmed, c.offset - 1)
  /\ UNCHANGED <<transportVars, getMe, appVars, serverUpdates, nPolls, nInit, nFails,
                 returned, invocations, acks>>

\* faulty variant: every error status is retried
AnyStatus(status) == TRUE

\* the interceptor's test `!status || status >= 500 || status === 429`
Transient(status) == status = NoStatus \/ status >= 500 \/ status = 429

\* the delay the interceptor waits before it sends the request again,
\* config._retryCount already incremented
RetryDelay(retryCount) == Pow2(retryCount) * RetryUnit

\* the response interceptor's error handler, for a getUpdates request that
\* comes back with an error: the request is sent again after a delay, or the
\* error is passed on to getUpdates
ResponseError(c, status) ==
  /\ c.pc = "getUpdates" /\ c.resp = "pending"
  /\ IF Transient(status) /\ c.retryCount < retry
     THEN /\ cycles' = (cycles \ {c}) \cup
               {[c EXCEPT !.resp = "backoff", !.status = status,
                          !.retryCount = @ + 1, !.delay = RetryDelay(c.retryCount + 1)]}
          /\ UNCHANGED nFails
     ELSE /\ cycles' = (cycles \ {c}) \cup {[c EXCEPT !.resp = "fail", !.status = status]}
          /\ nFails' = nFails + 1
  /\ UNCHANGED <<transportVars, getMe, appVars, serverVars, nPolls, nInit, returned,
                 invocations, acks>>

\* the interceptor's delay is over: `return api(config)` sends the request
\* again, with the parameters it had
RetryFires(c) ==
  /\ c.pc = "getUpdates" /\ c.resp = "backoff"
  /\ cycles' = (cycles \ {c}) \cup {[c EXCEPT !.resp = "pending"]}
  /\ UNCHANGED <<transportVars, getMe, appVars, serverVars, nPolls, nInit, nFails,
                 returned, invocations, acks>>

\* the request fails for good (network error, error status)
RequestFails(c) ==
  /\ c.pc = "getUpdates" /\ c.resp = "pending"
  /\ cycles' = (cycles \ {c}) \cup {[c EXCEPT !.resp = "fail"]}
  /\ nFails' = nFails + 1
  /\ UNCHANGED <<transportVars, getMe, appVars, serverVars, nPolls, nInit, returned,
                 invocations, acks>>

\* the cycle is over: the interval callback returns, checkTelegramUpdates runs
\* its finally block
EndCycle(c) ==
  /\ cycles' = cycles \ {c}
  /\ processing' = IF c.src = "app" THEN FALSE ELSE processing

\* faulty variant: the cursor is taken from the first update of the batch
NewCursorFirst(updates) == updates[1].update_id

\* the cursor getUpdates stores for a non-empty batch
NewCursor(updates) == updates[Len(updates)].update_id

\* getUpdates() after its await, response received; the caller's loop starts
GetUpdatesReturns(c) ==
  /\ c.pc = "getUpdates" /\ c.resp = "ok"
  /\ lastUpdateId' = IF Len(c.batch) > 0 THEN NewCursor(c.batch) ELSE lastUpdateId
  /\ returned' = returned \cup {c.batch[i].update_id : i \in 1..Len(c.batch)}
  /\ IF Len(c.batch) > 0
     THEN /\ cycles' = (cycles \ {c}) \cup {[c EXCEPT !.pc = "loop"]}
          /\ UNCHANGED processing
     ELSE EndCycle(c)
  /\ UNCHANGED <<token, chatId, connVars, clientVars, getMe, updateInterval,
                 serverVars, nPolls, nInit, nFails, invocations, acks>>

\* getUpdates() after its await, request failed: its catch
GetUpdatesFails(c) ==
  /\ c.pc = "getUpdates" /\ c.resp = "fail"
  /\ HandleDisconnection
  /\ EndCycle(c)
  /\ UNCHANGED <<token, chatId, lastUpdateId, clientVars, getMe, updateInterval,
                 serverVars, nPolls, nInit, nFails, returned, invocations, acks>>

-----------------------------------------------------------------------------
(* processUpdate *)

\* where a synchronous stretch of processUpdate ends
Outcome(next, key, param) == [next |-> next, key |-> key, param |-> param]
Return == Outcome("return", NoKey, NoParam)         \* processUpdate returns
Catch == Outcome("catch", NoKey, NoParam)           \* the catch block: sendMessage(error)
Reply == Outcome("reply", NoKey, NoParam)           \* sendMessage(...) in the try block
Answer == Outcome("answer", NoKey, NoParam)         \* await answerCallbackQuery
Invoke(key, param) == Outcome("invoke", key, param) \* await this.commandHandlers[key](...)

\* faulty variant: the parameter is the piece between the first two '_'
RouteCallbackSecondPiece(data) ==
  IF HasHandler(data) THEN Invoke(data, NoParam)
  ELSE IF Inherited(data) THEN Return
  ELSE IF Includes(data, "_")
  THEN LET parts == Split(data, "_")
           command == parts[1]
       IN IF HasHandler(command)
          THEN Invoke(command, StringParam(parts[2]))
          ELSE Return
  ELSE Reply

\* the callback branch after answerCallbackQuery: which handler gets the update
RouteCallback(data) ==
  IF HasHandler(data) THEN Invoke(data, NoParam)
  ELSE IF Inherited(data) THEN Return
  ELSE IF Includes(data, "_")
  THEN LET parts == Split(data, "_")
           command == parts[1]
       IN IF HasHandler(command)
          THEN Invoke(command, StringParam(Join(Tail(parts), "_")))
          ELSE Return
  ELSE Reply

\* the message branch
RouteMessage(text) ==
  IF Len(text) = 0 THEN Return
  ELSE IF Head(text) = "/"
  THEN LET parts == Split(Tail(text), " ")
           command == ToLowerCase(parts[1])
       IN IF HasHandler(command)
          THEN Invoke(command, ArrayParam(Tail(parts)))
          ELSE IF Inherited(command) THEN Return
          ELSE Reply
  ELSE IF HasHandler(<<"message">>) THEN Invoke(<<"message">>, NoParam)
  ELSE Return

\* processUpdate(update) up to its first await
EnterUpdate(u) ==
  IF chatId = NoChat THEN Catch
  ELSE IF Unauthorized(u) THEN Return
  ELSE IF u.kind = "callback_query"
  THEN (IF ApiReady THEN Answer ELSE Catch)
  ELSE RouteMessage(u.data)

\* sendMessage() settles at once when it sends nothing
SendsNothing == ~connected \/ ~ApiReady

\* the cycle c, now `at` an update of its batch, goes where o says
Proceed(c, at, o) ==
  LET i == at.idx
      u == c.batch[i]
      sends == o.next \in {"catch", "reply"}
      over == o.next = "return" \/ (sends /\ SendsNothing)
  IN
  /\ IF over /\ i = Len(c.batch)
     THEN EndCycle(c)
     ELSE /\ UNCHANGED processing
          /\ cycles' = (cycles \ {c}) \cup
               { IF over
                 THEN [at EXCEPT !.pc = "loop", !.key = NoKey, !.param = NoParam]
                 ELSE IF o.next = "answer"
                 THEN [at EXCEPT !.pc = "answer", !.answered = @ + 1]
                 ELSE IF o.next = "invoke"
                 THEN [at EXCEPT !.pc = "handler", !.key = o.key, !.param = o.param,
                                 !.started = Append(@, u.update_id)]
                 ELSE [at EXCEPT !.pc = "send"] }
  /\ invocations' = IF o.next = "invoke"
                    THEN [invocations EXCEPT ![u.update_id] = @ + 1]
                    ELSE invocations
  /\ acks' = IF o.next = "answer" THEN [acks EXCEPT ![u.update_id] = @ + 1] ELSE acks
  /\ UNCHANGED <<transportVars, getMe, isConnected, updateInterval, serverVars, nPolls,
                 nInit, returned>>

\* faulty variant: the loop does not await processUpdate: the next update is taken
\* up while the handler of the current one is still running
ProcessUpdateNotAwaited(c) ==
  /\ c.pc \in {"loop", "handler"}
  /\ c.idx < Len(c.batch)
  /\ Proceed(c, [c EXCEPT !.idx = @ + 1], EnterUpdate(c.batch[c.idx + 1]))
  /\ UNCHANGED nFails

\* the loop calls processUpdate on the next update of the batch
ProcessUpdate(c) ==
  /\ c.pc = "loop"
  /\ Proceed(c, [c EXCEPT !.idx = @ + 1], EnterUpdate(c.batch[c.idx + 1]))
  /\ UNCHANGED nFails

\* answerCallbackQuery succeeds
AnswerSucceeds(c) ==
  /\ c.pc = "answer"
  /\ Proceed(c, c, RouteCallback(c.batch[c.idx].data))
  /\ UNCHANGED nFails

\* faulty variant: a failed answerCallbackQuery is taken for a lost connection
AnswerFailsDisconnects(c) ==
  /\ c.pc = "answer"
  /\ HandleDisconnection
  /\ EndCycle(c)
  /\ nFails' = nFails + 1
  /\ UNCHANGED <<token, chatId, lastUpdateId, clientVars, getMe, updateInterval,
                 serverVars, nPolls, nInit, returned, invocations, acks>>

\* faulty variant: the error of answerCallbackQuery is swallowed and the handler runs
AnswerFailsIgnored(c) ==
  /\ c.pc = "answer"
  /\ Proceed(c, c, RouteCallback(c.batch[c.idx].data))
  /\ nFails' = nFails + 1

\* answerCallbackQuery fails: the catch block
AnswerFails(c) ==
  /\ c.pc = "answer"
  /\ Proceed(c, c, Catch)
  /\ nFails' = nFails + 1

\* the handler's promise resolves
HandlerReturns(c) ==
  /\ c.pc = "handler"
  /\ Proceed(c, c, Return)
  /\ UNCHANGED nFails

\* faulty variant: processUpdate has no catch: the exception ends the caller's loop
HandlerThrowsUncaught(c) ==
  /\ c.pc = "handler"
  /\ EndCycle(c)
  /\ UNCHANGED <<transportVars, getMe, isConnected, updateInterval, serverVars, nPolls,
                 nInit, nFails, returned, invocations, acks>>

\* the handler throws (or its promise rejects): the catch block
HandlerThrows(c) ==
  /\ c.pc = "handler"
  /\ Proceed(c, [c EXCEPT !.threw = TRUE], Catch)
  /\ UNCHANGED nFails

\* the sendMessage processUpdate awaits settles; it never throws
SendMessageSettles(c) ==
  /\ c.pc = "send"
  /\ Proceed(c, c, Return)
  /\ UNCHANGED nFails

\* the request of the sendMessage processUpdate awaits fails: sendMessage
\* catches the error and returns false
SendMessageFails(c) ==
  /\ c.pc = "send"
  /\ Proceed(c, c, Return)
  /\ nFails' = nFails + 1

-----------------------------------------------------------------------------
(* The callers of the transport: listeners and sends *)

\* faulty variant: the new listener is not called with the current state
AddConnectionListenerNoReplay(l) ==
  /\ IF l \in Listeners
     THEN /\ connectionListeners' = Append(connectionListeners, l)
          /\ UNCHANGED notifications
     ELSE UNCHANGED <<connectionListeners, notifications>>
  /\ UNCHANGED <<token, chatId, lastUpdateId, connected, reconnectTimer, timeouts,
                 reconnectAttempts, updatePollingInterval, intervals, isPolling, commandHandlers,
                 registrations, outbox, cycles, getMe, appVars, serverVars, nPolls, nInit, nFails,
                 returned, invocations, acks>>

\* addConnectionListener(listener)
AddConnectionListener(l) ==
  /\ IF l \in Listeners
     THEN /\ connectionListeners' = Append(connectionListeners, l)
          /\ notifications' = Append(notifications, [listener |-> l, status |-> connected])
     ELSE UNCHANGED <<connectionListeners, notifications>>
  /\ UNCHANGED <<token, chatId, lastUpdateId, connected, reconnectTimer, timeouts,
                 reconnectAttempts, updatePollingInterval, intervals, isPolling, commandHandlers,
                 registrations, outbox, cycles, getMe, appVars, serverVars, nPolls, nInit, nFails,
                 returned, invocations, acks>>

\* removeConnectionListener(listener)
RemoveConnectionListener(l) ==
  /\ connectionListeners' = SelectSeq(connectionListeners, LAMBDA k : k # l)
  /\ UNCHANGED <<token, chatId, lastUpdateId, connected, reconnectTimer, timeouts,
                 reconnectAttempts, updatePollingInterval, intervals, isPolling, notifications,
                 commandHandlers, registrations, outbox, cycles, getMe, appVars, serverVars, nPolls,
                 nInit, nFails, returned, invocations, acks>>

\* faulty variant: a key that has a handler keeps it
RegisterCommandHandlerOnce(name, handler) ==
  /\ commandHandlers' =
       IF handler \in Functions /\ ~HasHandler(name)
       THEN commandHandlers @@ (name :> handler)
       ELSE commandHandlers
  /\ registrations' = Append(registrations, [name |-> name, handler |-> handler])
  /\ UNCHANGED <<token, chatId, lastUpdateId, connected, reconnectTimer, timeouts,
                 reconnectAttempts, updatePollingInterval, intervals, isPolling, notifications,
                 connectionListeners, outbox, cycles, getMe, appVars, serverVars,
                 nPolls, nInit, nFails, returned, invocations, acks>>

\* registerCommandHandler(command, handler)
RegisterCommandHandler(name, handler) ==
  /\ commandHandlers' =
       IF handler \in Functions
       THEN (name :> handler) @@ commandHandlers
       ELSE commandHandlers
  /\ registrations' = Append(registrations, [name |-> name, handler |-> handler])
  /\ UNCHANGED <<token, chatId, lastUpdateId, connected, reconnectTimer, timeouts,
                 reconnectAttempts, updatePollingInterval, intervals, isPolling, notifications,
                 connectionListeners, outbox, cycles, getMe, appVars, serverVars,
                 nPolls, nInit, nFails, returned, invocations, acks>>

\* faulty variant: the connection state is not looked at
OfflineNever == FALSE

\* the test at the head of sendMessage and of sendFile
Offline == ~connected

\* sendMessage / sendFile up to the await of the request they post
Send(endpoint) ==
  LET n == Len(outbox.calls) + 1
      posts == ~Offline /\ ApiReady
      call == [endpoint |-> endpoint, offline |-> ~connected,
               result |-> IF posts THEN "pending" ELSE "false"]
  IN
  /\ outbox' = [calls |-> Append(outbox.calls, call),
                posted |-> IF posts THEN outbox.posted \cup {n} ELSE outbox.posted]
  /\ UNCHANGED <<token, chatId, lastUpdateId, connected, reconnectTimer, timeouts,
                 reconnectAttempts, updatePollingInterval, intervals, isPolling, notifications,
                 commandHandlers, registrations, connectionListeners, cycles, getMe, appVars,
                 serverVars, nPolls, nInit, nFails, returned, invocations, acks>>

\* sendMessage(text)
SendMessage == Send("sendMessage")

\* sendFile(filePath)
SendFile == Send("sendDocument")

\* the request of call i is answered: the call returns true, or false from
\* its catch when the request failed
SendSettles(i, ok) ==
  /\ i \in 1..Len(outbox.calls)
  /\ outbox.calls[i].result = "pending"
  /\ outbox' = [outbox EXCEPT !.calls[i].result = IF ok THEN "true" ELSE "false"]
  /\ nFails' = IF ok THEN nFails ELSE nFails + 1
  /\ UNCHANGED <<token, chatId, lastUpdateId, connected, reconnectTimer, timeouts,
                 reconnectAttempts, updatePollingInterval, intervals, isPolling, notifications,
                 commandHandlers, registrations, connectionListeners, cycles, getMe, appVars,
                 serverVars, nPolls, nInit, returned, invocations, acks>>

-----------------------------------------------------------------------------
(* Specifications.  Every one runs the operations above; they differ in    *)
(* what the environment does and in how far a run goes.                    *)

Within(updates, polls, inFlight, inits, fails) ==
  /\ Len(serverUpdates) <= updates
  /\ nPolls <= polls
  /\ Cardinality(cycles) <= inFlight
  /\ nInit <= inits
  /\ nFails <= fails

\* Spec: both poll triggers, the storage button pressed over and over
Limits == Within(MaxUpdates, MaxPolls, MaxInFlight, MaxInit, MaxFails)

Next ==
  \/ Initialize(BotToken, ConfiguredChat) /\ Limits'
  \/ HandleConnect /\ Limits'
  \/ (\E caller \in {"init", "timer"} : GetMeSucceeds(caller)) /\ Limits'
  \/ (\E caller \in {"init", "timer"} : GetMeNoBotInfo(caller)) /\ Limits'
  \/ (\E caller \in {"init", "timer"} : GetMeFails(caller)) /\ Limits'
  \/ ReconnectTimerFires /\ Limits'
  \/ (\E p \in StoragePayloads : NewUpdate(p)) /\ Limits'
  \/ PollTick /\ Limits'
  \/ CheckTelegramUpdates /\ Limits'
  \/ (\E c \in cycles : ServerAnswers(c)) /\ Limits'
  \/ (\E c \in cycles : RequestFails(c)) /\ Limits'
  \/ (\E c \in cycles : GetUpdatesReturns(c)) /\ Limits'
  \/ (\E c \in cycles : GetUpdatesFails(c)) /\ Limits'
  \/ (\E c \in cycles : ProcessUpdate(c)) /\ Limits'
  \/ (\E c \in cycles : AnswerSucceeds(c)) /\ Limits'
  \/ (\E c \in cycles : AnswerFails(c)) /\ Limits'
  \/ (\E c \in cycles : HandlerReturns(c)) /\ Limits'
  \/ (\E c \in cycles : HandlerThrows(c)) /\ Limits'
  \/ (\E c \in cycles : SendMessageSettles(c)) /\ Limits'

Spec == Init /\ [][Next]_vars

\* SpecDispatch: the transport's own trigger, every kind of update
DispatchLimits ==
  Within(DispatchUpdates, DispatchPolls, DispatchInFlight, DispatchInit, DispatchFails)

NextDispatch ==
  \/ Initialize(BotToken, ConfiguredChat) /\ DispatchLimits'
  \/ (\E caller \in {"init", "timer"} : GetMeSucceeds(caller)) /\ DispatchLimits'
  \/ (\E caller \in {"init", "timer"} : GetMeNoBotInfo(caller)) /\ DispatchLimits'
  \/ (\E caller \in {"init", "timer"} : GetMeFails(caller)) /\ DispatchLimits'
  \/ ReconnectTimerFires /\ DispatchLimits'
  \/ (\E p \in Payloads : NewUpdate(p)) /\ DispatchLimits'
  \/ PollTick /\ DispatchLimits'
  \/ (\E c \in cycles : ServerAnswers(c)) /\ DispatchLimits'
  \/ (\E c \in cycles : RequestFails(c)) /\ DispatchLimits'
  \/ (\E c \in cycles : GetUpdatesReturns(c)) /\ DispatchLimits'
  \/ (\E c \in cycles : GetUpdatesFails(c)) /\ DispatchLimits'
  \/ (\E c \in cycles : ProcessUpdate(c)) /\ DispatchLimits'
  \/ (\E c \in cycles : AnswerSucceeds(c)) /\ DispatchLimits'
  \/ (\E c \in cycles : AnswerFails(c)) /\ DispatchLimits'
  \/ (\E c \in cycles : HandlerReturns(c)) /\ DispatchLimits'
  \/ (\E c \in cycles : HandlerThrows(c)) /\ DispatchLimits'
  \/ (\E c \in cycles : SendMessageSettles(c)) /\ DispatchLimits'

SpecDispatch == Init /\ [][NextDispatch]_vars

\* SpecReconnect: any credentials, requests that keep failing, no update
ReconnectLimits ==
  /\ Len(serverUpdates) = 0
  /\ nPolls <= ReconnectPolls
  /\ Cardinality(cycles) <= ReconnectInFlight
  /\ nInit <= ReconnectInit

NextReconnect ==
  \/ (\E t \in {NoToken, BotToken}, c \in {NoChat, ConfiguredChat} : Initialize(t, c)) /\ ReconnectLimits'
  \/ (\E caller \in {"init", "timer"} : GetMeSucceeds(caller)) /\ ReconnectLimits'
  \/ (\E caller \in {"init", "timer"} : GetMeNoBotInfo(caller)) /\ ReconnectLimits'
  \/ (\E caller \in {"init", "timer"} : GetMeFails(caller)) /\ ReconnectLimits'
  \/ ReconnectTimerFires /\ ReconnectLimits'
  \/ PollTick /\ ReconnectLimits'
  \/ (\E c \in cycles : ServerAnswers(c)) /\ ReconnectLimits'
  \/ (\E c \in cycles : RequestFails(c)) /\ ReconnectLimits'
  \/ (\E c \in cycles : GetUpdatesReturns(c)) /\ ReconnectLimits'
  \/ (\E c \in cycles : GetUpdatesFails(c)) /\ ReconnectLimits'

SpecReconnect == Init /\ [][NextReconnect]_vars

\* SpecRouting: updates of every shape are routed while handlers are registered
RoutingLimits ==
  /\ Len(serverUpdates) <= RoutingUpdates
  /\ nPolls <= RoutingPolls
  /\ Len(registrations) <= RoutingRegistrations
  /\ nInit <= RoutingInit

NextRouting ==
  \/ Initialize(BotToken, ConfiguredChat) /\ RoutingLimits'
  \/ (\E caller \in {"init", "timer"} : GetMeSucceeds(caller)) /\ RoutingLimits'
  \/ (\E name \in RegisteredNames, handler \in Functions \cup {NotAHandler} :
        RegisterCommandHandler(name, handler)) /\ RoutingLimits'
  \/ (\E p \in RoutingPayloads : NewUpdate(p)) /\ RoutingLimits'
  \/ PollTick /\ RoutingLimits'
  \/ (\E c \in cycles : ServerAnswers(c)) /\ RoutingLimits'
  \/ (\E c \in cycles : GetUpdatesReturns(c)) /\ RoutingLimits'
  \/ (\E c \in cycles : ProcessUpdate(c)) /\ RoutingLimits'
  \/ (\E c \in cycles : AnswerSucceeds(c)) /\ RoutingLimits'
  \/ (\E c \in cycles : HandlerReturns(c)) /\ RoutingLimits'
  \/ (\E c \in cycles : HandlerThrows(c)) /\ RoutingLimits'
  \/ (\E c \in cycles : SendMessageSettles(c)) /\ RoutingLimits'

SpecRouting == Init /\ [][NextRouting]_vars

\* SpecListeners: listeners come and go while the connection is made and lost
ListenerLimits ==
  /\ Len(connectionListeners) <= MaxListeners
  /\ Len(notifications) <= MaxNotifications
  /\ nInit <= ListenerInit
  /\ nFails <= ListenerFails

NextListeners ==
  \/ (\E t \in {NoToken, BotToken}, c \in {NoChat, ConfiguredChat} : Initialize(t, c)) /\ ListenerLimits'
  \/ (\E caller \in {"init", "timer"} : GetMeSucceeds(caller)) /\ ListenerLimits'
  \/ (\E caller \in {"init", "timer"} : GetMeNoBotInfo(caller)) /\ ListenerLimits'
  \/ (\E caller \in {"init", "timer"} : GetMeFails(caller)) /\ ListenerLimits'
  \/ ReconnectTimerFires /\ ListenerLimits'
  \/ (\E l \in Listeners \cup {NotAFunction} : AddConnectionListener(l)) /\ ListenerLimits'
  \/ (\E l \in Listeners : RemoveConnectionListener(l)) /\ ListenerLimits'

SpecListeners == Init /\ [][NextListeners]_vars

\* SpecSend: messages and files are sent while the connection is made and lost
SendLimits ==
  /\ Len(outbox.calls) <= MaxSends
  /\ nInit <= SendInit
  /\ nFails <= SendFails

NextSend ==
  \/ (\E t \in {NoToken, BotToken}, c \in {NoChat, ConfiguredChat} : Initialize(t, c)) /\ SendLimits'
  \/ (\E caller \in {"init", "timer"} : GetMeSucceeds(caller)) /\ SendLimits'
  \/ (\E caller \in {"init", "timer"} : GetMeNoBotInfo(caller)) /\ SendLimits'
  \/ (\E caller \in {"init", "timer"} : GetMeFails(caller)) /\ SendLimits'
  \/ ReconnectTimerFires /\ SendLimits'
  \/ SendMessage /\ SendLimits'
  \/ SendFile /\ SendLimits'
  \/ (\E i \in 1..Len(outbox.calls), ok \in BOOLEAN : SendSettles(i, ok)) /\ SendLimits'

SpecSend == Init /\ [][NextSend]_vars

\* SpecFailures: every request can fail, handlers throw
FailureLimits ==
  /\ Within(FailureUpdates, FailurePolls, FailureInFlight, FailureInit, FailureFails)
  /\ Len(outbox.calls) <= FailureSends

NextFailures ==
  \/ Initialize(BotToken, ConfiguredChat) /\ FailureLimits'
  \/ (\E caller \in {"init", "timer"} : GetMeSucceeds(caller)) /\ FailureLimits'
  \/ (\E caller \in {"init", "timer"} : GetMeNoBotInfo(caller)) /\ FailureLimits'
  \/ (\E caller \in {"init", "timer"} : GetMeFails(caller)) /\ FailureLimits'
  \/ ReconnectTimerFires /\ FailureLimits'
  \/ (\E p \in FailurePayloads : NewUpdate(p)) /\ FailureLimits'
  \/ PollTick /\ FailureLimits'
  \/ (\E c \in cycles : ServerAnswers(c)) /\ FailureLimits'
  \/ (\E c \in cycles : RequestFails(c)) /\ FailureLimits'
  \/ (\E c \in cycles : GetUpdatesReturns(c)) /\ FailureLimits'
  \/ (\E c \in cycles : GetUpdatesFails(c)) /\ FailureLimits'
  \/ (\E c \in cycles : ProcessUpdate(c)) /\ FailureLimits'
  \/ (\E c \in cycles : AnswerSucceeds(c)) /\ FailureLimits'
  \/ (\E c \in cycles : AnswerFails(c)) /\ FailureLimits'
  \/ (\E c \in cycles : HandlerReturns(c)) /\ FailureLimits'
  \/ (\E c \in cycles : HandlerThrows(c)) /\ FailureLimits'
  \/ (\E c \in cycles : SendMessageSettles(c)) /\ FailureLimits'
  \/ (\E c \in cycles : SendMessageFails(c)) /\ FailureLimits'
  \/ SendMessage /\ FailureLimits'
  \/ SendFile /\ FailureLimits'
  \/ (\E i \in 1..Len(outbox.calls), ok \in BOOLEAN : SendSettles(i, ok)) /\ FailureLimits'

SpecFailures == Init /\ [][NextFailures]_vars

\* SpecRetry: the transport's own trigger, requests refused with every status
RetryLimits ==
  /\ Len(serverUpdates) <= RetryUpdates
  /\ nPolls <= RetryPolls
  /\ Cardinality(cycles) <= RetryInFlight
  /\ nInit <= RetryInit

NextRetry ==
  \/ Initialize(BotToken, ConfiguredChat) /\ RetryLimits'
  \/ (\E caller \in {"init", "timer"} : GetMeSucceeds(caller)) /\ RetryLimits'
  \/ ReconnectTimerFires /\ RetryLimits'
  \/ (\E p \in StoragePayloads : NewUpdate(p)) /\ RetryLimits'
  \/ PollTick /\ RetryLimits'
  \/ (\E c \in cycles : ServerAnswers(c)) /\ RetryLimits'
  \/ (\E c \in cycles, status \in Statuses : ResponseError(c, status)) /\ RetryLimits'
  \/ (\E c \in cycles : RetryFires(c)) /\ RetryLimits'
  \/ (\E c \in cycles : GetUpdatesReturns(c)) /\ RetryLimits'
  \/ (\E c \in cycles : GetUpdatesFails(c)) /\ RetryLimits'
  \/ (\E c \in cycles : ProcessUpdate(c)) /\ RetryLimits'
  \/ (\E c \in cycles : AnswerSucceeds(c)) /\ RetryLimits'
  \/ (\E c \in cycles : HandlerReturns(c)) /\ RetryLimits'

SpecRetry == Init /\ [][NextRetry]_vars

\* SpecLiveness: the reconnection state machine with the credentials set,
\* timers that fire and requests that are answered
NextLiveness ==
  \/ Initialize(BotToken, ConfiguredChat) /\ ReconnectLimits'
  \/ (\E caller \in {"init", "timer"} : GetMeSucceeds(caller)) /\ ReconnectLimits'
  \/ (\E caller \in {"init", "timer"} : GetMeNoBotInfo(caller)) /\ ReconnectLimits'
  \/ (\E caller \in {"init", "timer"} : GetMeFails(caller)) /\ ReconnectLimits'
  \/ ReconnectTimerFires /\ ReconnectLimits'
  \/ PollTick /\ ReconnectLimits'
  \/ (\E c \in cycles : ServerAnswers(c)) /\ ReconnectLimits'
  \/ (\E c \in cycles : RequestFails(c)) /\ ReconnectLimits'
  \/ (\E c \in cycles : GetUpdatesReturns(c)) /\ ReconnectLimits'
  \/ (\E c \in cycles : GetUpdatesFails(c)) /\ ReconnectLimits'

\* a liveness check in flight is answered, one way or another
GetMeAnswered ==
  \E caller \in {"init", "timer"} :
    GetMeSucceeds(caller) \/ GetMeNoBotInfo(caller) \/ GetMeFails(caller)

\* a getUpdates request in flight is answered or fails, and getUpdates returns
GetUpdatesAnswered ==
  \E c \in cycles :
    ServerAnswers(c) \/ RequestFails(c) \/ GetUpdatesReturns(c) \/ GetUpdatesFails(c)

\* timers fire once their delay is over, and every request gets an answer
\* or an error, within axios' timeout at the latest
Fairness ==
  /\ WF_vars(ReconnectTimerFires /\ ReconnectLimits')
  /\ WF_vars(GetMeAnswered /\ ReconnectLimits')
  /\ WF_vars(GetUpdatesAnswered /\ ReconnectLimits')

SpecLiveness == Init /\ [][NextLiveness]_vars /\ Fairness

-----------------------------------------------------------------------------
(* Properties *)

IdsOf(updates) == {updates[i].update_id : i \in 1..Len(updates)}
MaxOf(S) == CHOOSE m \in S : \A n \in S : n <= m
Last(q) == q[Len(q)]
Ascending(q) == \A i, j \in 1..Len(q) : i < j => q[i] < q[j]

\* getUpdates() returns to the caller of cycle c in this step
Returns(c) == c.pc = "getUpdates" /\ c.resp = "ok" /\ c \notin cycles'
\* the request of cycle d is issued in this step
Issued(d) == d \in cycles' /\ d.id > nPolls

\* C1 (as claimed): at most one poll cycle, a getUpdates request together
\* with the processing of the batch it returns, is in flight at any time,
\* whichever of the two triggers fires.
C1_OneCycleInFlight == Cardinality(cycles) <= 1

\* C2 (as claimed): lastUpdateId never decreases, whatever the order in
\* which poll responses resolve and across disconnections and reconnections.
C2_CursorNeverDecreases == [][lastUpdateId' >= lastUpdateId]_vars

\* C3: when getUpdates() returns a batch, lastUpdateId becomes the largest
\* update_id of the batch, and an empty batch leaves it as it was.
C3_CursorIsBatchMaximum ==
  [][\A c \in cycles : Returns(c) =>
       lastUpdateId' = IF c.batch = <<>> THEN lastUpdateId ELSE MaxOf(IdsOf(c.batch))]_vars

\* C3 witness: a batch of two updates has just been returned and the cursor
\* is the id of the later one.
C3_Witness ==
  \E c \in cycles : /\ c.pc = "loop" /\ c.idx = 0 /\ Len(c.batch) = 2
                    /\ lastUpdateId = c.batch[2].update_id
                    /\ c.batch[1].update_id < c.batch[2].update_id

\* C4 (as claimed): every getUpdates request carries offset = lastUpdateId + 1
\* and no update id is requested twice: a request never asks again for an
\* update id that an earlier getUpdates call has already returned.
C4_NoUpdateRequestedTwice ==
  [][\A d \in cycles' : Issued(d) =>
       /\ d.offset = lastUpdateId + 1
       /\ \A u \in returned : d.offset > u]_vars

\* C5 (as claimed): each update id is dispatched to a command handler at
\* most once over the whole execution.
C5_DispatchedAtMostOnce == \A u \in DOMAIN invocations : invocations[u] <= 1

\* C6: an update from a chat other than the configured one never has a
\* handler invoked for it, whether it is a text message or a callback query.
C6_OtherChatNeverDispatched ==
  /\ \A i \in 1..Len(serverUpdates) :
       serverUpdates[i].chat # AuthorizedChat =>
         invocations[serverUpdates[i].update_id] = 0
  /\ \A c \in cycles : c.pc = "handler" => c.batch[c.idx].chat = AuthorizedChat

\* C6 witness: a cycle has gone past a callback query and a text message of
\* another chat, both carrying the name of a registered handler.
C6_Witness ==
  \E c \in cycles : \E i, j \in 1..c.idx :
    /\ c.pc = "loop"
    /\ c.batch[i].chat = OtherChat /\ c.batch[i].kind = "callback_query"
    /\ c.batch[j].chat = OtherChat /\ c.batch[j].kind = "message"
    /\ HasHandler(c.batch[i].data)

\* C7: when a handler finishes, by returning or by throwing, the cycle goes
\* on with the same batch if updates remain, the poll timer, the connection
\* state and the cursor are untouched, and a cycle ends only once the last
\* update of its batch has been processed.
C7_ThrowIsContained ==
  [][\A c \in cycles : c \notin cycles' =>
       /\ c.pc = "handler" =>
            /\ connected' = connected
            /\ isPolling' = isPolling
            /\ updatePollingInterval' = updatePollingInterval
            /\ reconnectTimer' = reconnectTimer
            /\ lastUpdateId' = lastUpdateId
            /\ c.idx < Len(c.batch) =>
                 \E d \in cycles' : /\ d.id = c.id /\ d.batch = c.batch /\ d.idx = c.idx
                                    /\ d.pc \in {"loop", "send"}
       /\ (\A d \in cycles' : d.id # c.id) =>
            \/ c.pc = "getUpdates"
            \/ c.idx = Len(c.batch)
            \/ c.pc = "loop" /\ c.idx + 1 = Len(c.batch)]_vars

\* C7 witness: the handler of a later update of the batch is running after
\* the handler of an earlier one threw, the poll timer still armed.
C7_Witness ==
  \E c \in cycles : /\ c.threw /\ c.pc = "handler" /\ Len(c.started) >= 2
                    /\ updatePollingInterval /\ connected

\* the batch of the scenario: callbacks 'storage' (id 5) and 'back' (id 6)
IsScenario(c) ==
  c.batch = << [update_id |-> 5, kind |-> "callback_query", chat |-> AuthorizedChat,
                data |-> <<"storage">>],
               [update_id |-> 6, kind |-> "callback_query", chat |-> AuthorizedChat,
                data |-> <<"back">>] >>

\* C8: within one poll response the updates are taken in array order, one
\* at a time: the handlers a cycle has started are in ascending update_id
\* order, an update is taken up only when the one before it is finished
\* (its handler and the sends it awaits included), and a handler starts only
\* for the update the cycle is at.  For the batch [{5, 'storage'}, {6,
\* 'back'}] with cursor 4, answerCallbackQuery is issued twice, 'storage'
\* runs before 'back' and the cursor becomes 6 (no request having failed:
\* a failed answerCallbackQuery takes its update to the catch block).
C8_InOrderOneAtATime ==
  [][/\ \A d \in cycles' :
          /\ Ascending(d.started)
          /\ d.idx <= Len(d.batch)
          /\ \A k \in 1..Len(d.started) :
               \E j \in 1..d.idx : d.started[k] = d.batch[j].update_id
          /\ d.pc = "handler" => Last(d.started) = d.batch[d.idx].update_id
          /\ (IsScenario(d) /\ d.idx = 2 /\ d.pc = "handler" /\ nFails' = 0) =>
               /\ d.started = <<5, 6>>
               /\ d.answered = 2
               /\ d.key = <<"back">>
     /\ \A c \in cycles : \A d \in cycles' : d.id = c.id =>
          /\ d.idx \in {c.idx, c.idx + 1}
          /\ d.idx = c.idx + 1 => c.pc = "loop"
          /\ Len(d.started) > Len(c.started) =>
               /\ c.pc \in {"loop", "answer"}
               /\ d.pc = "handler"
               /\ Len(d.started) = Len(c.started) + 1
     /\ \A c \in cycles : (IsScenario(c) /\ Returns(c) /\ lastUpdateId = 4) =>
          lastUpdateId' = 6]_vars

\* C8 witness: the scenario, at the moment the 'back' handler runs.
C8_Witness ==
  \E c \in cycles : /\ IsScenario(c) /\ c.offset = 5 /\ c.idx = 2 /\ c.pc = "handler"
                    /\ c.started = <<5, 6>> /\ c.answered = 2 /\ lastUpdateId = 6
                    /\ nFails = 0

\* the delays of the reconnect attempts 1..10, in milliseconds
DelayOfAttempt ==
  <<1000, 2000, 4000, 8000, 16000, 30000, 30000, 30000, 30000, 30000>>

\* C9 (as claimed): the n-th reconnect attempt is scheduled with delay
\* min(30000, 1000 * 2^n).
C9_DelayAsClaimed ==
  reconnectTimer.pending =>
    reconnectTimer.delay = Min(30000, 1000 * Pow2(reconnectTimer.attempt))

\* C9 (amended): the n-th reconnect attempt, n = 1..10, is scheduled with
\* delay min(30000, 1000 * 2^(n-1)): 1000, 2000, 4000, 8000, 16000 and then
\* 30000 milliseconds.
C9_DelayOfNthAttempt ==
  reconnectTimer.pending =>
    /\ reconnectTimer.attempt \in 1..10
    /\ reconnectTimer.delay = DelayOfAttempt[reconnectTimer.attempt]

\* C9 witness: nine attempts in a row have failed and the tenth is scheduled.
C9_Witness ==
  /\ reconnectTimer.pending /\ reconnectTimer.attempt = 10
  /\ reconnectAttempts = 9 /\ ~connected

LivenessChecks == getMe["init"] + getMe["timer"]

\* the tenth reconnect attempt has failed and no liveness check is out
GaveUp == reconnectAttempts = maxReconnectAttempts /\ LivenessChecks = 0

\* C10: once the tenth reconnect attempt has failed, no reconnect timer is
\* pending, and until initialize is called again no step schedules one or
\* issues a liveness check: the attempt count stays at 10 and the state stays
\* as handleDisconnection left it.
C10_NoReconnectAfterTenth ==
  [][/\ reconnectAttempts' <= maxReconnectAttempts
     /\ reconnectAttempts' = maxReconnectAttempts => ~reconnectTimer'.pending
     /\ (GaveUp /\ nInit' = nInit) =>
          /\ GaveUp'
          /\ ~reconnectTimer'.pending
          /\ (~connected => ~connected')]_vars

\* C10 witness: ten attempts have failed, handleDisconnection has run again
\* and left no timer.
C10_Witness ==
  /\ GaveUp /\ ~connected /\ ~reconnectTimer.pending /\ reconnectTimer.attempt = 10
  /\ ~isPolling

\* a listener is subscribed in this step
Subscribes == Len(connectionListeners') = Len(connectionListeners) + 1
\* the calls listeners received in this step
NewCalls == SubSeq(notifications', Len(notifications) + 1, Len(notifications'))
Call(l, status) == [listener |-> l, status |-> status]

\* C11: a step that leaves the connected value as it was, a call of
\* setConnected with the current value included, invokes no listener; the
\* listeners are called only in a step that changes the value, and with the
\* new value.
C11_SameStateIsNoOp ==
  [][~Subscribes =>
       /\ connected' = connected => notifications' = notifications
       /\ notifications' # notifications =>
            /\ connected' # connected
            /\ \A k \in 1..Len(NewCalls) : NewCalls[k].status = connected']_vars

\* C11 witness: initialize has run twice with no failure in between, one of
\* the two calls finding the state it sets, and the listener added before
\* has heard of the one change only.
C11_Witness ==
  /\ nInit = 2 /\ nFails = 0 /\ connected /\ ~reconnectTimer.set
  /\ connectionListeners = <<AppListener, "first">>
  /\ notifications = <<Call("first", FALSE), Call("first", TRUE)>>

\* C12: addConnectionListener calls the new listener once, at once, with the
\* current state; a change of state calls the listeners of the list, each
\* once for each time it is in the list, in the order of the list, which is
\* the order of insertion, with the new state; removeConnectionListener calls
\* nobody, and a removed listener is not in the list any more.
C12_ReplayThenChangesInOrder ==
  [][/\ Subscribes =>
          /\ connected' = connected
          /\ Last(connectionListeners') \in Listeners
          /\ connectionListeners' = Append(connectionListeners, Last(connectionListeners'))
          /\ notifications' =
               Append(notifications, Call(Last(connectionListeners'), connected))
     /\ connected' # connected =>
          /\ connectionListeners' = connectionListeners
          /\ Len(NewCalls) = Len(connectionListeners) - 1
          /\ \A k \in 1..Len(NewCalls) :
               NewCalls[k] = Call(connectionListeners[k + 1], connected')
     /\ Len(connectionListeners') < Len(connectionListeners) =>
          /\ notifications' = notifications
          /\ \E l \in Listeners :
               /\ ~Includes(connectionListeners', l)
               /\ connectionListeners' = SelectSeq(connectionListeners, LAMBDA k : k # l)
     /\ Head(connectionListeners') = AppListener]_vars

\* C12 witness: two listeners were added while disconnected, both heard of
\* the connection in the order they were added, the first was removed and
\* only the second heard of the disconnection.
C12_Witness ==
  /\ connectionListeners = <<AppListener, "second">>
  /\ notifications = <<Call("first", FALSE), Call("second", FALSE), Call("first", TRUE),
                       Call("second", TRUE), Call("second", FALSE)>>

\* C13 (as claimed): the state becomes Connected only in a step in which a
\* getMe liveness check is answered; initialize by itself does not declare
\* the connection.
C13_ConnectedOnlyAfterLivenessCheck ==
  [][(connected' /\ ~connected) => LivenessChecks' < LivenessChecks]_vars

\* C14: initialize with a missing token or a missing chat id leaves the
\* state Disconnected (its return value), sends no request, creates no
\* reconnect timer and arms no poll timer.
C14_MissingCredentials ==
  [][(nInit' = nInit + 1 /\ (token' = NoToken \/ chatId' = NoChat)) =>
       /\ ~connected'
       /\ getMe' = getMe /\ cycles' = cycles /\ nPolls' = nPolls /\ outbox' = outbox
       /\ reconnectTimer' = reconnectTimer
       /\ updatePollingInterval' => updatePollingInterval
       /\ isPolling' => isPolling]_vars

\* C14 witness: initialize has been called twice, the last time without a
\* token, and nothing was ever sent, armed or scheduled.
C14_Witness ==
  /\ nInit = 2 /\ token = NoToken /\ chatId = ConfiguredChat
  /\ ~connected /\ ~isPolling /\ ~updatePollingInterval /\ reconnectTimer = NoTimer
  /\ LivenessChecks = 0 /\ nFails = 0 /\ nPolls = 0 /\ reconnectAttempts = 0

\* C15: a call of sendMessage or sendFile made while not connected returns
\* false and posts no request, then or later: a request is posted only in
\* the step of a call made while connected, for that call, so that becoming
\* Connected sends nothing.
C15_OfflineSendIsDropped ==
  [][/\ \A i \in 1..Len(outbox'.calls) :
          outbox'.calls[i].offline =>
            /\ outbox'.calls[i].result = "false"
            /\ i \notin outbox'.posted
     /\ outbox'.posted # outbox.posted =>
          /\ connected /\ connected'
          /\ Len(outbox'.calls) = Len(outbox.calls) + 1
          /\ outbox'.posted = outbox.posted \cup {Len(outbox'.calls)}
     /\ \A i \in 1..Len(outbox.calls) :
          /\ outbox'.calls[i].offline = outbox.calls[i].offline
          /\ outbox'.calls[i].endpoint = outbox.calls[i].endpoint]_vars

\* C15 witness: a file was sent while disconnected, the connection was made
\* afterwards, and only the message sent since has been posted.
C15_Witness ==
  /\ Len(outbox.calls) = 2 /\ connected
  /\ outbox.calls[1].offline /\ outbox.calls[1].endpoint = "sendDocument"
  /\ outbox.calls[1].result = "false"
  /\ ~outbox.calls[2].offline /\ outbox.calls[2].endpoint = "sendMessage"
  /\ outbox.posted = {2}

\* the position of the first '_' of d, the part of d before it and the
\* remainder after it
FirstUnderscore(d) ==
  CHOOSE k \in 1..Len(d) : d[k] = "_" /\ \A j \in 1..(k - 1) : d[j] # "_"
Before(d) == SubSeq(d, 1, FirstUnderscore(d) - 1)
After(d) == SubSeq(d, FirstUnderscore(d) + 1, Len(d))
Registered(key) == key \in DOMAIN commandHandlers

\* the cycle c, at update u, has the handler under key running with param
Runs(c, key, param) ==
  LET u == c.batch[c.idx].update_id IN
  /\ \E d \in cycles' : /\ d.id = c.id /\ d.idx = c.idx /\ d.pc = "handler"
                        /\ d.key = key /\ d.param = param
                        /\ d.started = Append(c.started, u)
  /\ invocations' = [invocations EXCEPT ![u] = @ + 1]

\* C16: once its answerCallbackQuery has succeeded, a callback update with
\* data d runs the handler registered under exactly d, with no parameter; if
\* there is none and d holds a '_', the handler registered under the part
\* before the first '_', with the remainder after it as parameter; if there
\* is none either, no handler.  One handler at most runs for the update.
C16_CallbackRouting ==
  [][/\ \A c \in cycles : (c.pc = "answer" /\ c \notin cycles' /\ nFails' = nFails) =>
          LET d == c.batch[c.idx].data IN
            IF Registered(d) THEN Runs(c, d, NoParam)
            ELSE IF Includes(d, "_") /\ Registered(Before(d))
            THEN Runs(c, Before(d), StringParam(After(d)))
            ELSE /\ invocations' = invocations
                 /\ \A e \in cycles' : e.id = c.id => e.pc # "handler"
     /\ \A e \in cycles' :
          /\ Ascending(e.started)
          /\ (e.pc = "handler" /\ e.batch[e.idx].data = <<"file", "_", "42">>) =>
               e.key = <<"file">> /\ e.param = StringParam(<<"42">>)
          /\ (e.pc = "handler" /\ e.batch[e.idx].data = <<"a", "_", "b", "_", "c">>) =>
               e.key = <<"a">> /\ e.param = StringParam(<<"b", "_", "c">>)]_vars

\* C16 witness: the callback 'a_b_c' runs the handler registered under 'a'
\* with the parameter 'b_c'.
C16_Witness ==
  \E c \in cycles :
    /\ c.pc = "handler" /\ c.batch[c.idx].data = <<"a", "_", "b", "_", "c">>
    /\ c.key = <<"a">> /\ c.param = StringParam(<<"b", "_", "c">>)
    /\ ~Registered(<<"a", "_", "b", "_", "c">>)
    /\ invocations[c.batch[c.idx].update_id] = 1

\* the command name and the parameters of a text that begins with '/': the
\* text after the slash up to the first blank, lowercased, and the
\* blank-delimited tokens that follow
CommandName(text) == ToLowerCase(Split(Tail(text), " ")[1])
Parameters(text) == SelectSeq(Tail(Split(Tail(text), " ")), LAMBDA w : w # <<>>)
IsCommand(u) == u.kind = "message" /\ Len(u.data) > 0 /\ Head(u.data) = "/"

\* C17 (as claimed): a text command from the configured chat runs the
\* handler registered under its lowercased name with its blank-delimited
\* tokens as parameters, and when no handler is registered under that name
\* one 'Unknown command' message is sent and no handler runs.
C17_TextCommandDispatch ==
  [][\A c \in cycles :
       (/\ c.pc = "loop" /\ c \notin cycles'
        /\ IsCommand(c.batch[c.idx + 1]) /\ ~Unauthorized(c.batch[c.idx + 1])
        /\ connected /\ ApiReady) =>
         LET u == c.batch[c.idx + 1]
             now == [c EXCEPT !.idx = @ + 1]
         IN IF Registered(CommandName(u.data))
            THEN Runs(now, CommandName(u.data), ArrayParam(Parameters(u.data)))
            ELSE /\ invocations' = invocations
                 /\ \E e \in cycles' : e.id = c.id /\ e.idx = c.idx + 1 /\ e.pc = "send"]_vars

\* the calls of registerCommandHandler so far that passed a function under key
FunctionsUnder(key) ==
  {i \in 1..Len(registrations) :
     registrations[i].name = key /\ registrations[i].handler \in Functions}

\* C18: after any sequence of registrations, the handler found under a key
\* is the function of the last call that registered a function under that
\* exact key, a key never registered since start-up keeps what it had, and
\* calls that pass something else than a function leave no trace.
C18_LastRegistrationWins ==
  /\ DOMAIN commandHandlers \subseteq (AppHandlers \cup RegisteredNames)
  /\ \A key \in AppHandlers \cup RegisteredNames :
       IF FunctionsUnder(key) # {}
       THEN /\ Registered(key)
            /\ commandHandlers[key] = registrations[MaxOf(FunctionsUnder(key))].handler
       ELSE IF key \in AppHandlers
       THEN Registered(key) /\ commandHandlers[key] = key
       ELSE ~Registered(key)

\* C18 witness: 'a' was registered with f, then with g, then with something
\* that is not a function, and g is what 'a' resolves to.
C18_Witness ==
  /\ registrations = << [name |-> <<"a">>, handler |-> <<"f">>],
                        [name |-> <<"a">>, handler |-> <<"g">>],
                        [name |-> <<"a">>, handler |-> NotAHandler] >>
  /\ commandHandlers[<<"a">>] = <<"g">>

\* C19 (as claimed): whenever the poll interval timer is armed, the state is
\* Connected.
C19_TimerArmedOnlyWhileConnected == updatePollingInterval => connected

\* C20 (as claimed): a getUpdates request that returns when the state is no
\* longer Connected is discarded: the cursor stays where it was and the
\* cycle ends without processing any of the updates.
C20_LateResultIsDiscarded ==
  [][\A c \in cycles : (Returns(c) /\ ~connected) =>
       /\ lastUpdateId' = lastUpdateId
       /\ \A d \in cycles' : d.id # c.id]_vars

\* the update the cycle c is at
At(c) == c.batch[c.idx]

\* C21 (as claimed): for every callback update of the configured chat one
\* answerCallbackQuery request is issued, and one only; it has been issued
\* and answered before the handler of the update is invoked, and what the
\* handler does afterwards changes nothing about it.
C21_OneAnswerBeforeHandler ==
  [][/\ \A u \in DOMAIN acks' : acks'[u] <= 1
     /\ \A c \in cycles :
          (/\ c.pc = "loop" /\ c \notin cycles'
           /\ c.batch[c.idx + 1].kind = "callback_query"
           /\ ~Unauthorized(c.batch[c.idx + 1])) =>
            acks' = [acks EXCEPT ![c.batch[c.idx + 1].update_id] = @ + 1]
     /\ \A c \in cycles : \A d \in cycles' :
          (/\ d.id = c.id /\ d.pc = "handler" /\ c.pc # "handler"
           /\ At(d).kind = "callback_query") =>
            /\ c.pc = "answer" /\ c.idx = d.idx
            /\ acks[At(d).update_id] >= 1
            /\ nFails' = nFails
     /\ \A c \in cycles : (c.pc = "handler" /\ c \notin cycles') => acks' = acks]_vars

\* handleDisconnection() runs in this step: a liveness check has failed, or
\* getUpdates has, its request refused or never sent for want of this.api
Disconnects ==
  \/ nFails' = nFails + 1 /\ LivenessChecks' < LivenessChecks
  \/ \E c \in cycles : c.pc = "getUpdates" /\ c.resp = "fail" /\ c \notin cycles'
  \/ connected /\ ~connected' /\ ~ApiReady /\ nInit' = nInit

\* the callback of the reconnect timer runs in this step
TimerFires == reconnectTimer.pending /\ ~reconnectTimer'.pending /\ ~Disconnects

\* what handleDisconnection leaves behind
Disconnected ==
  /\ ~connected' /\ ~updatePollingInterval' /\ ~isPolling' /\ intervals' = 0
  /\ reconnectAttempts' = reconnectAttempts
  /\ IF reconnectAttempts < maxReconnectAttempts
     THEN timeouts' = 1 /\ reconnectTimer'.pending
     ELSE timeouts' = 0 /\ ~reconnectTimer'.pending

\* C22 (as claimed): handleDisconnection leaves the state Disconnected, the
\* poll timer disarmed and, below ten attempts, exactly one reconnect timer
\* pending; when the reconnect timer fires, reconnectAttempts grows by one
\* and one liveness check is issued.
C22_TimerFiresWithLivenessCheck ==
  [][/\ Disconnects => Disconnected
     /\ TimerFires =>
          /\ reconnectAttempts' = reconnectAttempts + 1
          /\ timeouts' = timeouts - 1
          /\ LivenessChecks' = LivenessChecks + 1]_vars

\* C22 (amended): handleDisconnection leaves the state Disconnected, the
\* poll timer disarmed and, below ten attempts, exactly one reconnect timer
\* pending, the one pending before being cancelled; when the reconnect timer
\* fires, reconnectAttempts grows by one, and one liveness check is issued
\* if a token and a chat id are set at that moment, none otherwise.
C22_HandleDisconnection ==
  [][/\ Disconnects => Disconnected
     /\ TimerFires =>
          /\ reconnectAttempts' = reconnectAttempts + 1
          /\ timeouts' = timeouts - 1
          /\ LivenessChecks' =
               IF token # NoToken /\ chatId # NoChat
               THEN LivenessChecks + 1 ELSE LivenessChecks
          /\ connected' = connected /\ isPolling' = isPolling]_vars

\* C22 witness: three liveness checks have failed and the timer has fired
\* once in between, so that one handleDisconnection found a timer pending;
\* one timer is pending now.
C22_Witness ==
  /\ nFails = 3 /\ nPolls = 0 /\ nInit = 2 /\ LivenessChecks = 0
  /\ reconnectAttempts = 1 /\ reconnectTimer.pending /\ timeouts = 1
  /\ ~connected /\ ~isPolling

\* a request other than getUpdates and getMe fails in this step, or a handler
\* ends, by returning or by throwing
FailsElsewhere ==
  \/ nFails' = nFails + 1 /\ LivenessChecks' = LivenessChecks
       /\ \A c \in cycles : c.pc = "getUpdates" => c \in cycles'
  \/ \E c \in cycles : c.pc = "handler" /\ c \notin cycles'

\* a reconnect is scheduled in this step
SchedulesReconnect == reconnectTimer'.pending /\ reconnectTimer' # reconnectTimer

\* C23: among failures, only a failed getUpdates and a failed liveness check
\* make the state Disconnected or schedule a reconnect (a call of initialize
\* is no failure): a failed sendMessage, sendFile or answerCallbackQuery and
\* a handler that throws leave connected, reconnectAttempts, the reconnect
\* timer, the poll timer and lastUpdateId as they were.
C23_OtherFailuresAreContained ==
  [][/\ FailsElsewhere =>
          /\ connected' = connected /\ isConnected' = isConnected
          /\ reconnectAttempts' = reconnectAttempts
          /\ reconnectTimer' = reconnectTimer /\ timeouts' = timeouts
          /\ updatePollingInterval' = updatePollingInterval
          /\ isPolling' = isPolling /\ intervals' = intervals
          /\ lastUpdateId' = lastUpdateId
     /\ ((connected /\ ~connected') \/ SchedulesReconnect) =>
          Disconnects \/ nInit' = nInit + 1]_vars

\* C23 witness: an answerCallbackQuery, a sendMessage and a sendFile have
\* failed and a handler has thrown; the transport is connected and polling,
\* and no reconnect was ever scheduled.
C23_Witness ==
  /\ nFails = 3 /\ connected /\ updatePollingInterval /\ isPolling
  /\ ~reconnectTimer.set /\ reconnectAttempts = 0 /\ timeouts = 0
  /\ \E i \in 1..Len(outbox.calls) :
       /\ outbox.calls[i].endpoint = "sendDocument" /\ ~outbox.calls[i].offline
       /\ outbox.calls[i].result = "false"
  /\ \E c \in cycles :
       /\ c.threw /\ c.idx = 2 /\ c.pc = "send"
       /\ acks[c.batch[1].update_id] = 1 /\ invocations[c.batch[1].update_id] = 0
       /\ c.batch[1].data = <<"storage">>
       /\ lastUpdateId = c.batch[2].update_id

\* C24: a getUpdates request refused with a network error, a 5xx or a 429
\* is sent again, three times at most, the k-th time after 2^k * 1000 ms;
\* refused once more after that, or refused with another status at any
\* time, it fails with no further retry; getUpdates then calls
\* handleDisconnection and returns an empty batch: the cycle ends, the
\* cursor stays and nothing is dispatched.
C24_RetryIsBounded ==
  [][/\ \A c \in cycles : \A d \in cycles' :
          (/\ d.id = c.id /\ c.pc = "getUpdates" /\ c.resp = "pending"
           /\ d.resp \in {"backoff", "fail"}) =>
            IF (d.status = 0 \/ d.status >= 500 \/ d.status = 429) /\ c.retryCount < 3
            THEN /\ d.resp = "backoff"
                 /\ d.retryCount = c.retryCount + 1
                 /\ d.delay = (2 ^ d.retryCount) * 1000
            ELSE /\ d.resp = "fail"
                 /\ d.retryCount = c.retryCount
     /\ \A d \in cycles' : d.retryCount <= 3
     /\ \A c \in cycles : (c.pc = "getUpdates" /\ c.resp = "fail" /\ c \notin cycles') =>
          /\ Disconnected
          /\ \A d \in cycles' : d.id # c.id
          /\ lastUpdateId' = lastUpdateId /\ returned' = returned
          /\ invocations' = invocations]_vars

\* C24 witness: a request has been refused four times, at last with 429, sent again
\* three times, the last time after 8000 ms, and has now failed.
C24_Witness ==
  \E c \in cycles : /\ c.pc = "getUpdates" /\ c.resp = "fail" /\ c.status = 429
                    /\ c.retryCount = 3 /\ c.delay = 8000

\* a liveness check is answered in this step and testConnection returns true
LivenessConfirmed == LivenessChecks' < LivenessChecks /\ getMe'.result

\* C25: a liveness check that succeeds sets reconnectAttempts to 0, and
\* nothing else does: any other step that changes reconnectAttempts is the
\* reconnect timer firing, which adds one; polls and sends that succeed and
\* calls of initialize leave it as it is.
C25_ResetOnlyOnLivenessSuccess ==
  [][/\ LivenessConfirmed => reconnectAttempts' = 0
     /\ reconnectAttempts' # reconnectAttempts =>
          \/ reconnectAttempts' = 0 /\ LivenessConfirmed
          \/ reconnectAttempts' = reconnectAttempts + 1 /\ TimerFires]_vars

\* C25 witness: the second reconnect attempt was scheduled and has fired,
\* its liveness check has succeeded, and reconnectAttempts is 0 again.
C25_Witness ==
  /\ reconnectAttempts = 0 /\ reconnectTimer.attempt = 2 /\ ~reconnectTimer.pending
  /\ getMe.result /\ LivenessChecks = 0 /\ connected /\ isPolling

\* C26: reconnectAttempts is at least 0 and at most 10 in every reachable
\* state, however poll failures, liveness-check failures, firings of the
\* reconnect timer and calls of initialize interleave.
C26_AttemptsWithinBounds == reconnectAttempts \in 0..10

\* C26 witness: initialize has been called twice, a poll has been issued,
\* and the liveness check of the tenth reconnect attempt is in flight.
C26_Witness ==
  /\ reconnectAttempts = 10 /\ getMe["timer"] = 1 /\ nInit = 2 /\ nPolls >= 1
  /\ nFails >= 10

\* C27 (as claimed): one reconnect timer at most is pending at any time, and
\* none is pending while the state is Connected.
C27_NoReconnectTimerWhileConnected ==
  /\ timeouts <= 1
  /\ connected => timeouts = 0 /\ ~reconnectTimer.pending

\* C28 (as claimed): with timers that fire and requests that are answered,
\* once the state is Disconnected after a handleDisconnection, a token and a
\* chat id being set and reconnectAttempts below 10, the state becomes
\* Connected or reconnectAttempts reaches 10.
C28_ReconnectsOrGivesUp ==
  (/\ ~connected /\ reconnectTimer.set
   /\ token # NoToken /\ chatId # NoChat
   /\ reconnectAttempts < 10)
    ~> (connected \/ reconnectAttempts = 10)

\* C29: isPolling is true exactly when a poll interval is armed, and there
\* is one interval at most in the timer queue, the one
\* this.updatePollingInterval refers to; a call of initialize made while
\* polling leaves the interval as it is, and a handleDisconnection that
\* finds no polling leaves none.
C29_PollingFlagMatchesTimer ==
  [][/\ isPolling' <=> updatePollingInterval'
     /\ intervals' = IF updatePollingInterval' THEN 1 ELSE 0
     /\ (nInit' = nInit + 1 /\ isPolling) =>
          /\ isPolling' /\ updatePollingInterval' /\ intervals' = intervals
     /\ (Disconnects /\ ~isPolling) =>
          /\ ~isPolling' /\ ~updatePollingInterval' /\ intervals' = intervals]_vars

\* C29 witness: initialize has been called twice with both credentials and
\* nothing has failed: the second call found the polling on, and one
\* interval is armed.
C29_Witness ==
  /\ nInit = 2 /\ nFails = 0 /\ ~reconnectTimer.set /\ connected
  /\ token = BotToken /\ chatId = ConfiguredChat /\ getMe["init"] = 2
  /\ isPolling /\ updatePollingInterval /\ intervals = 1

\* the cycle c goes on behind the update it is at: with the next update of
\* its batch, or it ends when there is none
GoesOn(c) ==
  IF c.idx < Len(c.batch)
  THEN \E d \in cycles' : /\ d.id = c.id /\ d.pc = "loop" /\ d.idx = c.idx
                          /\ d.batch = c.batch /\ d.started = c.started
  ELSE \A d \in cycles' : d.id # c.id

\* C30: when the answerCallbackQuery of a callback update fails, this call
\* of processUpdate invokes no handler; the error is caught, an error
\* message is sent to the chat (sendMessage sends nothing when the transport
\* is not connected), the loop goes on with the next update of the batch,
\* and the connection state, the timers and the cursor are untouched.
C30_FailedAnswerIsContained ==
  [][/\ \A c \in cycles : (c.pc = "answer" /\ c \notin cycles' /\ nFails' = nFails + 1) =>
          /\ invocations' = invocations
          /\ connected' = connected /\ isConnected' = isConnected
          /\ reconnectAttempts' = reconnectAttempts
          /\ reconnectTimer' = reconnectTimer /\ timeouts' = timeouts
          /\ isPolling' = isPolling /\ updatePollingInterval' = updatePollingInterval
          /\ lastUpdateId' = lastUpdateId
          /\ IF connected /\ ApiReady
             THEN \E d \in cycles' : /\ d.id = c.id /\ d.pc = "send" /\ d.idx = c.idx
                                     /\ d.batch = c.batch /\ d.started = c.started
             ELSE GoesOn(c)
     /\ \A c \in cycles : (c.pc = "send" /\ c \notin cycles') =>
          /\ GoesOn(c)
          /\ invocations' = invocations
          /\ connected' = connected /\ lastUpdateId' = lastUpdateId]_vars

\* C30 witness: the answerCallbackQuery of the first update of a batch has
\* failed, no handler ran for it, and the handler of the second update is
\* running, the transport still connected and polling.
C30_Witness ==
  \E c \in cycles :
    /\ Len(c.batch) = 2 /\ c.idx = 2 /\ c.pc = "handler" /\ nFails = 1
    /\ c.batch[1].kind = "callback_query" /\ c.batch[1].chat = AuthorizedChat
    /\ HasHandler(c.batch[1].data)
    /\ acks[c.batch[1].update_id] = 1 /\ invocations[c.batch[1].update_id] = 0
    /\ c.started = <<c.batch[2].update_id>>
    /\ connected /\ isPolling /\ ~reconnectTimer.set

====
